---- MODULE Spec2Model ----
(***************************************************************************)
(* A model of the wallet store (WalletContext.tsx), of the bulk functions  *)
(* of blockchainUtils.ts and of the batch run that the BulkOperations      *)
(* component drives (executeOperation in WalletManager.tsx).               *)
(*                                                                         *)
(* Strings of the program are TLA+ strings where they are opaque and       *)
(* tuples where the program builds them: a wallet id is <<t>> for          *)
(* Date.now().toString(), a ciphertext is <<plaintext, passphrase, salt>>, *)
(* and the empty string of a watch-only record is <<>>.  An absent value   *)
(* (undefined, null) of a string-valued place is NoValue; an optional      *)
(* field of a result object is simply not in the record's DOMAIN.          *)
(***************************************************************************)
EXTENDS Integers, Sequences, FiniteSets

\* ------------------------------------------------------------- bounds
\* The most wallets the store holds, and the latest clock reading.
MaxWallets == 2
\* The longest input list handed to a bulk function called directly.
MaxBatch == 3
\* The highest number an auto-generated wallet name carries.
MaxLabel == 3
\* The longest key string given to the key functions, in characters after 0x
MaxChars == 130

\* ------------------------------------------------------------- values
NoValue == "undefined"

Passwords == {"pw1", "pw2"}
Salts == {"s1"}

\* Private keys in the canonical form ethers' Wallet.privateKey returns.
ValidKeys == {"0xk1", "0xk2"}
\* A string from which `new Wallet(...)` cannot build a wallet.
BadKey == "not-a-key"
\* What AES decryption under the wrong passphrase leaves: no private key.
Garbage == "garbage"

\* The key "0xk1" as a user may write it: without the 0x prefix, with
\* upper-case hex digits, with both.
KeyForms == {"k1", "0xK1", "K1"}

\* Wallet.privateKey: the key as 0x-prefixed lower-case hex, whatever the form
\* of the string the wallet was built from
CanonicalKey(k) == IF k \in KeyForms THEN "0xk1" ELSE k

\* new Wallet(privateKey): throws unless the string is a private key
IsValidKey(k) == k \in ValidKeys \cup KeyForms

\* new Wallet(privateKey).address
AddressOf(k) == IF CanonicalKey(k) = "0xk1" THEN "0xA1" ELSE "0xA2"

\* Addresses a user may enter for a watch-only import: one well formed
\* (0x + 40 hex characters), one not.
WatchAddress == "0xW1"
BadAddress == "W1"
AddressFormatOk(a) == a \in {"0xA1", "0xA2", WatchAddress}

Names == {<<"My Wallet">>}
NoName == <<>>

\* Date.now().toString()
DateNowToString(t) == <<t>>

\* ------------------------------------------------------------- SecretCodec
\* CryptoJS.AES.encrypt(message, passphrase).toString(): a fresh salt per call
AESEncrypt(message, passphrase, salt) == <<message, passphrase, salt>>

\* CryptoJS.AES.decrypt(ciphertext, passphrase).toString(CryptoJS.enc.Utf8):
\* the message under the passphrase it was encrypted with, no usable text
\* under any other, the empty string for the empty ciphertext.
AESDecrypt(ciphertext, passphrase) ==
  IF ciphertext = <<>> THEN ""
  ELSE IF ciphertext[2] = passphrase THEN ciphertext[1]
  ELSE Garbage

\* encryptWallet(privateKey, password)
encryptWallet(privateKey, password, salt) == AESEncrypt(privateKey, password, salt)

\* decryptWallet returning the decrypted text instead of Wallet.privateKey
decryptWallet_ReturnsPlaintext(encryptedPrivateKey, password) ==
  LET privateKey == AESDecrypt(encryptedPrivateKey, password) IN
  IF privateKey = "" \/ ~IsValidKey(privateKey)
  THEN [ok |-> FALSE]
  ELSE [ok |-> TRUE, privateKey |-> privateKey, address |-> AddressOf(privateKey)]

\* decryptWallet(encryptedPrivateKey, password): [ok, privateKey, address];
\* ok = FALSE stands for the thrown "Failed to decrypt wallet" error.
decryptWallet(encryptedPrivateKey, password) ==
  LET privateKey == AESDecrypt(encryptedPrivateKey, password) IN
  IF privateKey = "" \/ ~IsValidKey(privateKey)
  THEN [ok |-> FALSE]
  ELSE [ok |-> TRUE, privateKey |-> CanonicalKey(privateKey),
        address |-> AddressOf(privateKey)]

\* ------------------------------------------------------------- key strings
\* A string given to a key function, by what the functions read of it:
\*   prefix   it starts with "0x"
\*   chars    the number of characters after the prefix
\*   firstBad the position of the first character that is no hex digit,
\*            0 when every character is one
\*   upper    it holds an upper-case hex digit
\*   curveOk  the bytes it spells are a key of the curve: for secp256k1 a
\*            scalar in [1, n-1], for Ed25519 a seed followed by its public key
KeyStrings ==
  {s \in [prefix : BOOLEAN, chars : 0..MaxChars, firstBad : 0..MaxChars,
          upper : BOOLEAN, curveOk : BOOLEAN] :
     /\ s.firstBad \in {0, 1, s.chars}
     /\ s.firstBad <= s.chars}

\* /^[0-9a-fA-F]{64}$/ and /^[0-9a-fA-F]{128}$/
SecpHexChars == 64
SolanaHexChars == 128
\* secretKey.length !== 64
SolanaSecretBytes == 64

\* privateKey.startsWith("0x") ? privateKey.slice(2) : privateKey
cleanPrivateKey(s) == [s EXCEPT !.prefix = FALSE]

\* /^[0-9a-fA-F]{n}$/.test(s)
IsHexOfLength(s, n) == ~s.prefix /\ s.firstBad = 0 /\ s.chars = n

\* Buffer.from(s, "hex").length: the hex digits before the first character
\* that is none, two to a byte, an odd last digit dropped
BufferFromHexLength(s) ==
  (IF s.firstBad = 0 THEN s.chars ELSE s.firstBad - 1) \div 2

\* isValidPrivateKey(privateKey) of walletUtils.ts
isValidPrivateKey(privateKey) ==
  /\ IsHexOfLength(cleanPrivateKey(privateKey), SecpHexChars)
  /\ privateKey.curveOk

\* isValidSolanaPrivateKey(privateKey)
isValidSolanaPrivateKey(privateKey) ==
  /\ IsHexOfLength(cleanPrivateKey(privateKey), SolanaHexChars)
  /\ privateKey.curveOk

\* createSolanaWalletFromPrivateKey accepting a 32-byte seed as well
createSolanaWalletFromPrivateKey_SeedToo(privateKey) ==
  LET bytes == BufferFromHexLength(cleanPrivateKey(privateKey)) IN
  IF bytes \notin {32, SolanaSecretBytes} \/ ~privateKey.curveOk
  THEN [ok |-> FALSE]
  ELSE [ok |-> TRUE,
        privateKey |-> [prefix |-> FALSE, chars |-> 2 * bytes, firstBad |-> 0,
                        upper |-> FALSE, curveOk |-> TRUE]]

\* createSolanaWalletFromPrivateKey(privateKey): [ok, privateKey]; ok = FALSE
\* is a thrown error.  The privateKey returned is the hex of the keypair's
\* secret key: lower case, no prefix.
createSolanaWalletFromPrivateKey(privateKey) ==
  LET bytes == BufferFromHexLength(cleanPrivateKey(privateKey)) IN
  IF bytes # SolanaSecretBytes \/ ~privateKey.curveOk
  THEN [ok |-> FALSE]
  ELSE [ok |-> TRUE,
        privateKey |-> [prefix |-> FALSE, chars |-> 2 * bytes, firstBad |-> 0,
                        upper |-> FALSE, curveOk |-> TRUE]]

\* encryptSolanaWallet(privateKey, password)
encryptSolanaWallet(privateKey, password, salt) == AESEncrypt(privateKey, password, salt)

\* decryptSolanaWallet returning the decrypted text as the private key
decryptSolanaWallet_ReturnsPlaintext(encryptedPrivateKey, password) ==
  IF encryptedPrivateKey[2] # password THEN [ok |-> FALSE]
  ELSE LET privateKey == encryptedPrivateKey[1] IN
       IF privateKey.chars = 0 /\ ~privateKey.prefix THEN [ok |-> FALSE]
       ELSE IF createSolanaWalletFromPrivateKey(privateKey).ok
            THEN [ok |-> TRUE, privateKey |-> privateKey]
            ELSE [ok |-> FALSE]

\* decryptSolanaWallet(encryptedPrivateKey, password): under another password
\* the decrypted text is no key; the empty text is refused
decryptSolanaWallet(encryptedPrivateKey, password) ==
  IF encryptedPrivateKey[2] # password THEN [ok |-> FALSE]
  ELSE LET privateKey == encryptedPrivateKey[1] IN
       IF privateKey.chars = 0 /\ ~privateKey.prefix THEN [ok |-> FALSE]
       ELSE createSolanaWalletFromPrivateKey(privateKey)


\* ------------------------------------------------------------- state
VARIABLES
  \* WalletProvider (WalletContext.tsx)
  wallets,          \* useState<Wallet[]>
  masterPassword,   \* useState<string | null>
  isPasswordSet,    \* useState<boolean>
  storage,          \* localStorage and sessionStorage: the keys the provider writes
  now,              \* the last reading of Date.now()
  passwordEntered,  \* history: setMasterPassword was called since the page loaded
  \* BulkOperations component (WalletManager.tsx)
  selectedWallets,  \* useState<string[]>: ids in selection order
  operationType,
  formValues,       \* the form's fields while the confirm modal is open
  confirmModalVisible,
  operationInProgress,
  loading,
  results,
  showResults,
  progress,         \* {current, total} | null
  errorModal,       \* the title of the Modal.error last shown, or NoValue
  decryptLog,       \* history: getDecryptedWallet / decryptWallet calls of the run
  \* one call of a bulk function (blockchainUtils.ts)
  bulk,
  \* one call of a key function (walletUtils.ts, solanaWalletUtils.ts)
  probe,
  \* the bulkImportWallets call that is awaiting, if any
  importing

storeVars == <<wallets, masterPassword, isPasswordSet, storage, now,
              passwordEntered>>
uiVars == <<selectedWallets, operationType, formValues, confirmModalVisible,
            operationInProgress, loading, results, showResults, progress,
            errorModal, decryptLog>>
vars == <<storeVars, uiVars, bulk, probe, importing>>

\* ------------------------------------------------------------- helpers
Range(s) == {s[i] : i \in 1..Len(s)}

RECURSIVE SelectSeqBy(_, _)
\* Array.prototype.filter over ids: the elements of s that are in keep
SelectSeqBy(s, keep) ==
  IF s = <<>> THEN <<>>
  ELSE IF Head(s) \in keep THEN <<Head(s)>> \o SelectSeqBy(Tail(s), keep)
  ELSE SelectSeqBy(Tail(s), keep)

\* wallets.find(w => w.id === id): the first record with that id, or NoValue
HasWallet(ws, id) == \E i \in 1..Len(ws) : ws[i].id = id
FindWallet(ws, id) ==
  ws[CHOOSE i \in 1..Len(ws) :
       ws[i].id = id /\ \A j \in 1..(i - 1) : ws[j].id # id]

\* ------------------------------------------------------------- wallet store
None == <<>>
Some(v) == <<v>>

\* encryptMasterPassword(password): AES under the fixed passphrase of the code
encryptMasterPassword(password, salt) ==
  AESEncrypt(password, "wallet-manager-salt", salt)

\* JSON.stringify of a wallet list and JSON.parse of the string.  The records
\* hold strings and a boolean, no undefined, no Date and no number, so the
\* string has every field of every record and parses to an equal list; the
\* empty list is "[]", a string that getItem's caller finds truthy.
JSONStringify(ws) == Some(ws)
JSONParse(text) == text[1]

\* saveWalletsToLocalStorage leaving the legacy key in place
saveWalletsToLocalStorage_KeepsLegacy(st, walletsToSave) ==
  [st EXCEPT !.ls_wallets = JSONStringify(walletsToSave),
             !.ss_wallets = JSONStringify(walletsToSave)]

\* saveWalletsToLocalStorage(walletsToSave): both storages get the list, the
\* legacy key goes
saveWalletsToLocalStorage(st, walletsToSave) ==
  [st EXCEPT !.ls_wallets = JSONStringify(walletsToSave),
             !.ss_wallets = JSONStringify(walletsToSave),
             !.ls_legacy_wallets = None]

\* generateWalletName numbering by the count of such names, as the
\* watch-only import does
generateWalletName_CountPlusOne(ws, type) ==
  <<type, Cardinality({j \in 1..Len(ws) :
            Len(ws[j].name) = 2 /\ ws[j].name[1] = type}) + 1>>

\* generateWalletName(type): typePrefix + (highest number in use + 1)
generateWalletName(ws, type) ==
  LET typePrefix == type
      used == {ws[i].name[2] : i \in {j \in 1..Len(ws) :
                 Len(ws[j].name) = 2 /\ ws[j].name[1] = typePrefix}}
      highestNumber == IF used = {} THEN 0
                       ELSE CHOOSE n \in used : \A m \in used : m <= n
  IN <<typePrefix, highestNumber + 1>>

\* "Watch-Only Wallet #" + (count of such names + 1)
watchOnlyName(ws) ==
  <<"Watch-Only Wallet #",
    Cardinality({j \in 1..Len(ws) :
       Len(ws[j].name) = 2 /\ ws[j].name[1] = "Watch-Only Wallet #"}) + 1>>

\* The store holds at most MaxWallets records and the clock stops at
\* MaxWallets: bounds of the model, not of the program.
CanCreate(t) == Len(wallets) < MaxWallets /\ t \in {now, now + 1} /\ t <= MaxWallets

\* The page behind an open modal takes no input (antd's mask).
PageIdle == ~confirmModalVisible /\ errorModal = NoValue

\* The model edits the store, the selection and the operation type before the
\* first batch shows progress or results, and then runs any number of batches
\* over them.  The results and the progress of an earlier batch are read by no
\* handler, so an edit made after a batch leads to no batch that an edit made
\* before it does not lead to.
Editable == PageIdle /\ ~showResults /\ progress = NoValue

\* setMasterPassword(password)
SetMasterPassword(password, salt) ==
  /\ Editable
  /\ masterPassword' = password
  /\ storage' =
       LET st == [storage EXCEPT
                    !.ls_has_password = Some("true"),
                    !.ls_encrypted_master_password =
                       Some(encryptMasterPassword(password, salt))]
       IN IF Len(wallets) > 0 THEN saveWalletsToLocalStorage(st, wallets) ELSE st
  /\ isPasswordSet' = TRUE
  /\ passwordEntered' = TRUE
  /\ UNCHANGED <<wallets, now, uiVars, bulk, probe, importing>>

\* addWallet without the check of the master password
AddWallet_NoPasswordCheck(name, key, t, salt) ==
  /\ Editable
  /\ CanCreate(t)
  /\ LET wallet == [id |-> DateNowToString(t),
                    name |-> IF name # NoName THEN name
                             ELSE generateWalletName(wallets, "Generated Wallet #"),
                    address |-> AddressOf(key),
                    encryptedPrivateKey |-> encryptWallet(key, masterPassword, salt),
                    isWatchOnly |-> FALSE]
         updatedWallets == Append(wallets, wallet)
     IN /\ wallets' = updatedWallets
        /\ storage' = saveWalletsToLocalStorage(storage, updatedWallets)
  /\ now' = t
  /\ UNCHANGED <<masterPassword, isPasswordSet, passwordEntered, uiVars, bulk, probe, importing>>

\* addWallet(name): key is the key generateWallet() drew, t the clock reading
AddWallet(name, key, t, salt) ==
  /\ Editable
  /\ masterPassword # NoValue
  /\ CanCreate(t)
  /\ LET wallet == [id |-> DateNowToString(t),
                    name |-> IF name # NoName THEN name
                             ELSE generateWalletName(wallets, "Generated Wallet #"),
                    address |-> AddressOf(key),
                    encryptedPrivateKey |-> encryptWallet(key, masterPassword, salt),
                    isWatchOnly |-> FALSE]
         updatedWallets == Append(wallets, wallet)
     IN /\ wallets' = updatedWallets
        /\ storage' = saveWalletsToLocalStorage(storage, updatedWallets)
  /\ now' = t
  /\ UNCHANGED <<masterPassword, isPasswordSet, passwordEntered, uiVars, bulk, probe, importing>>

\* importWallet(name, privateKey): encrypts, then decrypts to get the address;
\* a string that is no private key makes decryptWallet throw and nothing is stored
ImportWallet(name, privateKey, t, salt) ==
  /\ Editable
  /\ masterPassword # NoValue
  /\ CanCreate(t)
  /\ LET encryptedPrivateKey == encryptWallet(privateKey, masterPassword, salt)
         decrypted == decryptWallet(encryptedPrivateKey, masterPassword)
     IN /\ decrypted.ok
        /\ LET wallet == [id |-> DateNowToString(t),
                          name |-> IF name # NoName THEN name
                                   ELSE generateWalletName(wallets, "Imported Wallet #"),
                          address |-> decrypted.address,
                          encryptedPrivateKey |-> encryptedPrivateKey,
                          isWatchOnly |-> FALSE]
               updatedWallets == Append(wallets, wallet)
           IN /\ wallets' = updatedWallets
              /\ storage' = saveWalletsToLocalStorage(storage, updatedWallets)
  /\ now' = t
  /\ UNCHANGED <<masterPassword, isPasswordSet, passwordEntered, uiVars, bulk, probe, importing>>

\* importWatchOnlyWallet storing the record without its isWatchOnly flag
ImportWatchOnlyWallet_Unflagged(name, address, t) ==
  /\ Editable
  /\ AddressFormatOk(address)
  /\ CanCreate(t)
  /\ LET wallet == [id |-> DateNowToString(t),
                    name |-> IF name # NoName THEN name ELSE watchOnlyName(wallets),
                    address |-> address,
                    encryptedPrivateKey |-> <<>>,
                    isWatchOnly |-> FALSE]
         updatedWallets == Append(wallets, wallet)
     IN /\ wallets' = updatedWallets
        /\ storage' = saveWalletsToLocalStorage(storage, updatedWallets)
  /\ now' = t
  /\ UNCHANGED <<masterPassword, isPasswordSet, passwordEntered, uiVars, bulk, probe, importing>>

\* importWatchOnlyWallet(name, address)
ImportWatchOnlyWallet(name, address, t) ==
  /\ Editable
  /\ AddressFormatOk(address)
  /\ CanCreate(t)
  /\ LET wallet == [id |-> DateNowToString(t),
                    name |-> IF name # NoName THEN name ELSE watchOnlyName(wallets),
                    address |-> address,
                    encryptedPrivateKey |-> <<>>,
                    isWatchOnly |-> TRUE]
         updatedWallets == Append(wallets, wallet)
     IN /\ wallets' = updatedWallets
        /\ storage' = saveWalletsToLocalStorage(storage, updatedWallets)
  /\ now' = t
  /\ UNCHANGED <<masterPassword, isPasswordSet, passwordEntered, uiVars, bulk, probe, importing>>

\* An id that no record carries
AbsentId == <<-1>>

\* removeWallet(id) dropping only the first record that carries the id
RemoveWallet_FirstMatch(id) ==
  /\ Editable
  /\ LET first == {i \in 1..Len(wallets) :
                    wallets[i].id = id /\ \A j \in 1..(i - 1) : wallets[j].id # id}
         updatedWallets == SelectSeqBy([i \in 1..Len(wallets) |-> i],
                                       (1..Len(wallets)) \ first)
     IN /\ wallets' = [k \in 1..Len(updatedWallets) |-> wallets[updatedWallets[k]]]
        /\ storage' = saveWalletsToLocalStorage(storage, wallets')
  /\ UNCHANGED <<masterPassword, isPasswordSet, now, passwordEntered, uiVars, bulk, probe, importing>>

\* removeWallet(id)
RemoveWallet(id) ==
  /\ Editable
  /\ LET updatedWallets == SelectSeq(wallets, LAMBDA w : w.id # id)
     IN /\ wallets' = updatedWallets
        /\ storage' = saveWalletsToLocalStorage(storage, updatedWallets)
  /\ UNCHANGED <<masterPassword, isPasswordSet, now, passwordEntered, uiVars, bulk, probe, importing>>

\* What a user pastes as one line of a bulk import: a private key, an address
\* (a string that is neither a private key nor a mnemonic), an empty line
ImportInputs == {"0xk1", WatchAddress, ""}

\* createWalletFromInput building a wallet from any string
createWalletFromInput_NoValidation(input) ==
  [ok |-> TRUE, privateKey |-> CanonicalKey(input), address |-> AddressOf(input)]

\* createWalletFromInput(input): [ok, privateKey, address]; ok = FALSE is the
\* thrown "Invalid input" error
createWalletFromInput(input) ==
  IF IsValidKey(input)
  THEN [ok |-> TRUE, privateKey |-> CanonicalKey(input), address |-> AddressOf(input)]
  ELSE [ok |-> FALSE]

\* The loop of bulkImportWallets over the inputs left, ts the readings of
\* Date.now() its iterations take (never going back): [success, failed, wallets].  ws is the
\* wallets state the call closed over, which generateWalletName reads.
RECURSIVE BulkImportLoop(_, _, _, _, _, _)
BulkImportLoop(ws, pw, inputs, ts, salt, res) ==
  IF inputs = <<>> THEN res
  ELSE LET trimmedInput == Head(inputs)
           walletData == createWalletFromInput(trimmedInput)
           wallet == [id |-> DateNowToString(Head(ts)) \o <<res.success>>,
                      name |-> generateWalletName(ws, "Imported Wallet #"),
                      address |-> walletData.address,
                      encryptedPrivateKey |->
                         encryptWallet(walletData.privateKey, pw, salt),
                      isWatchOnly |-> FALSE]
       IN BulkImportLoop(ws, pw, Tail(inputs), Tail(ts), salt,
            IF trimmedInput = "" THEN res
            ELSE IF walletData.ok
              THEN [res EXCEPT !.wallets = Append(res.wallets, wallet),
                               !.success = res.success + 1]
            ELSE [res EXCEPT !.failed = res.failed + 1])

NonDecreasing(ts) == \A i \in 1..(Len(ts) - 1) : ts[i] <= ts[i + 1]

\* bulkImportWallets(inputs)
BulkImportWallets(inputs, ts, salt) ==
  /\ Editable
  /\ masterPassword # NoValue
  /\ Len(inputs) > 0
  /\ Len(wallets) + Len(inputs) <= MaxWallets
  /\ Len(ts) = Len(inputs) /\ NonDecreasing(ts)
  /\ \A i \in 1..Len(ts) : ts[i] >= now /\ ts[i] <= MaxWallets
  /\ LET imported == BulkImportLoop(wallets, masterPassword, inputs, ts, salt,
                                    [success |-> 0, failed |-> 0, wallets |-> <<>>])
         updatedWallets == wallets \o imported.wallets
     IN IF Len(imported.wallets) > 0
        THEN /\ wallets' = updatedWallets
             /\ storage' = saveWalletsToLocalStorage(storage, updatedWallets)
        ELSE UNCHANGED <<wallets, storage>>
  /\ now' = ts[Len(ts)]
  /\ UNCHANGED <<masterPassword, isPasswordSet, passwordEntered, uiVars, bulk, probe, importing>>

\* A bulkImportWallets call is between its first and its last await
Awaiting == importing # None /\ importing[1].pc = "awaiting"

\* bulkImportWallets(inputs) up to its first await: the call has read the
\* wallets and the master password of the render it was made in
BulkImportStart(inputs, salt) ==
  /\ Editable
  /\ ~Awaiting
  /\ masterPassword # NoValue
  /\ \E i \in 1..Len(inputs) : inputs[i] # ""
  /\ Len(wallets) + Len(inputs) <= MaxWallets
  /\ importing' = Some([pc |-> "awaiting", wallets |-> wallets,
                        masterPassword |-> masterPassword,
                        inputs |-> inputs, salt |-> salt,
                        results |-> [success |-> 0, failed |-> 0, wallets |-> <<>>]])
  /\ UNCHANGED <<storeVars, uiVars, bulk, probe>>

\* bulkImportWallets after its last await: the rest of the loop, the update of
\* the store and the return of the results; t is the clock reading of the loop
BulkImportFinish(t) ==
  /\ Editable
  /\ Awaiting
  /\ t >= now /\ t <= MaxWallets
  /\ LET call == importing[1]
         imported == BulkImportLoop(call.wallets, call.masterPassword, call.inputs,
                                    [i \in 1..Len(call.inputs) |-> t], call.salt,
                                    call.results)
         updatedWallets == call.wallets \o imported.wallets
     IN /\ IF Len(imported.wallets) > 0
           THEN /\ wallets' = updatedWallets
                /\ storage' = saveWalletsToLocalStorage(storage, updatedWallets)
           ELSE UNCHANGED <<wallets, storage>>
        /\ importing' = Some([call EXCEPT !.pc = "returned", !.results = imported])
  /\ now' = t
  /\ UNCHANGED <<masterPassword, isPasswordSet, passwordEntered, uiVars, bulk, probe>>

\* decryptMasterPassword(encryptedPassword)
decryptMasterPassword(encryptedPassword) ==
  AESDecrypt(encryptedPassword, "wallet-manager-salt")

\* The string the load effect parses: the new key of localStorage, else the
\* legacy key, else sessionStorage; None when all three are absent
LoadWallets(st) ==
  IF st.ls_wallets # None THEN st.ls_wallets
  ELSE IF st.ls_legacy_wallets # None THEN st.ls_legacy_wallets
  ELSE st.ss_wallets

\* A page load: the provider mounts with its initial state and the load effect
\* restores the wallets (localStorage first, then sessionStorage) and the
\* master password from the storage.
Reload ==
  /\ Editable
  /\ LET loadedWallets == LoadWallets(storage)
     IN IF loadedWallets # None
        THEN /\ wallets' = JSONParse(loadedWallets)
             /\ storage' = saveWalletsToLocalStorage(storage, JSONParse(loadedWallets))
        ELSE /\ wallets' = <<>>
             /\ UNCHANGED storage
  /\ isPasswordSet' = (storage.ls_has_password = Some("true"))
  /\ masterPassword' =
       IF storage.ls_encrypted_master_password # None
       THEN decryptMasterPassword(storage.ls_encrypted_master_password[1])
       ELSE NoValue
  /\ passwordEntered' = FALSE
  /\ UNCHANGED <<now, uiVars, bulk, probe, importing>>

\* getDecryptedWallet falling back to a default password when none is set
getDecryptedWallet_DefaultPassword(ws, pw, id) ==
  LET password == IF pw = NoValue THEN "pw1" ELSE pw IN
  IF ~HasWallet(ws, id) THEN [ok |-> FALSE, attempted |-> FALSE]
  ELSE LET wallet == FindWallet(ws, id) IN
    IF wallet.isWatchOnly THEN [ok |-> FALSE, attempted |-> FALSE]
    ELSE LET decrypted == decryptWallet(wallet.encryptedPrivateKey, password) IN
      IF decrypted.ok
      THEN [ok |-> TRUE, attempted |-> TRUE,
            privateKey |-> decrypted.privateKey, address |-> decrypted.address]
      ELSE [ok |-> FALSE, attempted |-> TRUE]

\* getDecryptedWallet(id): [ok, privateKey, address]; ok = FALSE is the null
\* it returns.  attempted tells whether decryptWallet was called.
getDecryptedWallet(ws, pw, id) ==
  IF pw = NoValue THEN [ok |-> FALSE, attempted |-> FALSE]
  ELSE IF ~HasWallet(ws, id) THEN [ok |-> FALSE, attempted |-> FALSE]
  ELSE LET wallet == FindWallet(ws, id) IN
    IF wallet.isWatchOnly THEN [ok |-> FALSE, attempted |-> FALSE]
    ELSE LET decrypted == decryptWallet(wallet.encryptedPrivateKey, pw) IN
      IF decrypted.ok
      THEN [ok |-> TRUE, attempted |-> TRUE,
            privateKey |-> decrypted.privateKey, address |-> decrypted.address]
      ELSE [ok |-> FALSE, attempted |-> TRUE]

\* ------------------------------------------------------------- bulk functions
BulkFns == {"bulkSend", "bulkTransferToken", "bulkApproveToken",
            "bulkCustomTransaction", "bulkCheckNativeBalance"}
TokenFns == {"bulkTransferToken", "bulkApproveToken"}
TxFns == BulkFns \ {"bulkCheckNativeBalance"}

\* What a rejected provider call carries as error.message
ProviderErrors == {"ProviderError"}
\* What the provider answers to decimals()
TokenDecimals == {"6", "18"}

EmptyParams == [to |-> NoValue, value |-> NoValue, tokenAddress |-> NoValue,
                data |-> NoValue]

\* The record of one call of a bulk function: its arguments, its locals (i,
\* results), where it stands (pc), the provider requests not yet settled
\* (pending), and the history of its onProgress calls (progressCalls), of the
\* provider requests it issued (calls) and of how each ended (settled).
IdleBulk == [fn |-> NoValue, keys |-> <<>>, params |-> EmptyParams, i |-> 0,
             pc |-> "idle", results |-> <<>>, error |-> NoValue,
             pending |-> {}, progressCalls |-> <<>>, calls |-> <<>>,
             settled |-> {}]

\* ethers.parseEther / ethers.parseUnits: throws on a string that is no decimal
IsDecimalString(v) == v \in {"1"}

\* A catch block that also reports a (missing) transaction hash
FailedResult_WithHash(address, message) ==
  [walletAddress |-> address, success |-> FALSE, error |-> message,
   txHash |-> NoValue]

\* The failed entry a catch block pushes
FailedResult(address, message) ==
  [walletAddress |-> address, success |-> FALSE, error |-> message]

\* The entry pushed after a submitted transaction
TxResult(address, hash) ==
  [walletAddress |-> address, success |-> TRUE, txHash |-> hash]

\* The entry pushed after both reads of a balance check
BalanceResult(address, balance, txCount) ==
  [walletAddress |-> address, success |-> TRUE, balance |-> balance,
   txCount |-> txCount]

\* results.push(entry) and the loop's i++; the function returns when the loop
\* condition fails
Push(b, entry) ==
  [b EXCEPT !.results = Append(b.results, entry),
            !.i = b.i + 1,
            !.pc = IF b.i + 1 > Len(b.keys) THEN "returned" ELSE "loop"]

\* A provider request goes out for wallet b.i
Issue(b, kind, amount, pc) ==
  [b EXCEPT !.pending = b.pending \cup {[w |-> b.i, kind |-> kind]},
            !.calls = Append(b.calls, [w |-> b.i, kind |-> kind, amount |-> amount,
                                       data |-> IF b.fn = "bulkCustomTransaction"
                                                THEN b.params.data ELSE NoValue]),
            !.pc = pc]

\* An exception leaves the function: the returned promise rejects
Throw(b, message) == [b EXCEPT !.pc = "threw", !.error = message]

\* The call of a bulk function up to its loop: bulkTransferToken and
\* bulkApproveToken throw without a token address
Call(fn, keys, params) ==
  LET b == [IdleBulk EXCEPT !.fn = fn, !.keys = keys, !.params = params, !.i = 1]
  IN IF fn \in TokenFns /\ params.tokenAddress = NoValue
     THEN Throw(b, "Token address is required")
     ELSE [b EXCEPT !.pc = IF Len(keys) = 0 THEN "returned" ELSE "loop"]

\* Progress reporting the loop index i instead of i + 1
Progress_ZeroBased(b) ==
  [b EXCEPT !.progressCalls =
     Append(b.progressCalls,
            [current |-> b.i - 1, total |-> Len(b.keys), recorded |-> Len(b.results)])]

\* onProgress(i + 1, total); recorded is the length of results at the call
Progress(b) ==
  [b EXCEPT !.progressCalls =
     Append(b.progressCalls,
            [current |-> b.i, total |-> Len(b.keys), recorded |-> Len(b.results)])]

\* One pass of the loop body of a bulk function, from the loop head to its
\* first await (or to the push of a failure raised before any await)
IterBody(b0) ==
  LET b == Progress(b0)
      key == b.keys[b.i]
  IN IF b.fn = "bulkCheckNativeBalance"
     THEN Issue(Issue(b, "getBalance", NoValue, "awaitReads"),
                "getTransactionCount", NoValue, "awaitReads")
     ELSE IF ~IsValidKey(key)
       \* new Wallet(privateKey) throws, and so does the one in the catch block
       THEN Throw(b, "invalid private key")
     ELSE IF b.fn \in TokenFns
       THEN Issue(b, "decimals", NoValue, "awaitDecimals")
     ELSE IF b.params.value # NoValue /\ ~IsDecimalString(b.params.value)
       THEN Push(b, FailedResult(AddressOf(key), "invalid FixedNumber string value"))
     ELSE Issue(b, "sendTransaction", b.params.value, "awaitTx")

\* The progress callback executeOperation passes sets the component's state
ProgressShown(b) ==
  IF operationInProgress
  THEN [current |-> b.i, total |-> Len(b.keys)]
  ELSE progress

BulkIter ==
  /\ bulk.pc = "loop"
  /\ bulk' = IterBody(bulk)
  /\ progress' = ProgressShown(bulk)
  /\ UNCHANGED <<probe, importing, storeVars, selectedWallets, operationType, formValues,
                 confirmModalVisible, operationInProgress, loading, results,
                 showResults, errorModal, decryptLog>>

\* The request of kind `kind` for wallet w settles with outcome
Settled(b, w, kind, outcome) ==
  [b EXCEPT !.pending = b.pending \ {[w |-> w, kind |-> kind]},
            !.settled = b.settled \cup
               {[w |-> w, kind |-> kind, ok |-> outcome \notin ProviderErrors,
                 value |-> outcome]}]

\* TokenAmount taking "max" for a transfer as well
TokenAmount_MaxForTransfer(fn, value, decimals) ==
  IF value = "max" THEN "MaxUint256"
  ELSE IF value = NoValue THEN <<"0", decimals>>
  ELSE IF IsDecimalString(value) THEN <<value, decimals>>
  ELSE NoValue

\* The amount bulkTransferToken / bulkApproveToken submits, or NoValue when
\* parseUnits throws
TokenAmount(fn, value, decimals) ==
  IF fn = "bulkApproveToken" /\ value = "max" THEN "MaxUint256"
  ELSE IF value = NoValue THEN <<"0", decimals>>
  ELSE IF IsDecimalString(value) THEN <<value, decimals>>
  ELSE NoValue

\* AfterDecimals with the decimals read outside the try block
AfterDecimals_Uncaught(b0, outcome) ==
  LET b == Settled(b0, b0.i, "decimals", outcome)
      key == b.keys[b.i]
  IN IF outcome \in ProviderErrors
     THEN Throw(b, outcome)
     ELSE LET amount == TokenAmount(b.fn, b.params.value, outcome) IN
       IF amount = NoValue
       THEN Push(b, FailedResult(AddressOf(key), "invalid FixedNumber string value"))
       ELSE Issue(b, IF b.fn = "bulkTransferToken" THEN "transfer" ELSE "approve",
                  amount, "awaitTx")

\* After await tokenContract.decimals(): parse the amount and submit, or push
\* the failure the catch block records
AfterDecimals(b0, outcome) ==
  LET b == Settled(b0, b0.i, "decimals", outcome)
      key == b.keys[b.i]
  IN IF outcome \in ProviderErrors
     THEN Push(b, FailedResult(AddressOf(key), outcome))
     ELSE LET amount == TokenAmount(b.fn, b.params.value, outcome) IN
       IF amount = NoValue
       THEN Push(b, FailedResult(AddressOf(key), "invalid FixedNumber string value"))
       ELSE Issue(b, IF b.fn = "bulkTransferToken" THEN "transfer" ELSE "approve",
                  amount, "awaitTx")

\* await tokenContract.decimals() settles
SettleDecimals(outcome) ==
  /\ bulk.pc = "awaitDecimals"
  /\ bulk' = AfterDecimals(bulk, outcome)
  /\ UNCHANGED <<probe, importing, storeVars, uiVars>>

TxKind(fn) ==
  IF fn = "bulkTransferToken" THEN "transfer"
  ELSE IF fn = "bulkApproveToken" THEN "approve"
  ELSE "sendTransaction"

\* AfterTx without its catch block: a rejected transaction leaves the function
AfterTx_Uncaught(b0, outcome) ==
  LET b == Settled(b0, b0.i, TxKind(b0.fn), outcome)
      key == b.keys[b.i]
  IN IF outcome \in ProviderErrors
     THEN Throw(b, outcome)
     ELSE Push(b, TxResult(AddressOf(key), <<"hash", b.i>>))

AfterTx(b0, outcome) ==
  LET b == Settled(b0, b0.i, TxKind(b0.fn), outcome)
      key == b.keys[b.i]
  IN IF outcome \in ProviderErrors
     THEN Push(b, FailedResult(AddressOf(key), outcome))
     ELSE Push(b, TxResult(AddressOf(key), <<"hash", b.i>>))

\* await wallet.sendTransaction / transfer / approve settles
SettleTx(outcome) ==
  /\ bulk.pc = "awaitTx"
  /\ bulk' = AfterTx(bulk, outcome)
  /\ UNCHANGED <<probe, importing, storeVars, uiVars>>

\* AfterRead without Promise.all: the first read to succeed makes the result
AfterRead_FirstReadWins(b0, w, kind, outcome) ==
  LET b == Settled(b0, w, kind, outcome)
      address == b.keys[b.i]
  IN IF ~(b.pc = "awaitReads" /\ w = b.i) THEN b
     ELSE IF outcome \in ProviderErrors
       THEN Push(b, FailedResult(address, outcome))
     ELSE Push(b, BalanceResult(address, "0.0", 0))

\* One of the two reads of a balance check settles.  Promise.all rejects with
\* the first rejection and resolves once both reads have; a read of a wallet
\* the loop has left settles unobserved.
AfterRead(b0, w, kind, outcome) ==
  LET b == Settled(b0, w, kind, outcome)
      address == b.keys[b.i]
  IN IF ~(b.pc = "awaitReads" /\ w = b.i) THEN b
     ELSE IF outcome \in ProviderErrors
       THEN Push(b, FailedResult(address, outcome))
     ELSE IF \E r \in b.pending : r.w = w
       THEN b
     ELSE Push(b, BalanceResult(address, "0.0", 0))

SettleRead(w, kind, outcome) ==
  /\ [w |-> w, kind |-> kind] \in bulk.pending
  /\ kind \in {"getBalance", "getTransactionCount"}
  /\ bulk' = AfterRead(bulk, w, kind, outcome)
  /\ UNCHANGED <<probe, importing, storeVars, uiVars>>

Outcomes == {"ok"} \cup ProviderErrors

\* ------------------------------------------------------------- BulkOperations
OperationTypes == {"send", "transfer_token", "approve_token", "custom",
                   "check_native_balance"}

\* The values the form hands to onFinish: the rules of the rendered fields
\* hold (to, value, tokenAddress and data are required where they are
\* rendered) and a field that is not rendered has no value.
ValidForm(op) ==
  {v \in [to : {NoValue, "0xTo"}, value : {NoValue, "1", "max"},
          tokenAddress : {NoValue, "0xT"}, data : {NoValue, "0xdata"}] :
     /\ (v.to # NoValue) <=> (op # "check_native_balance")
     /\ (v.value # NoValue) <=> (op \in {"send", "transfer_token", "approve_token"})
     /\ (v.tokenAddress # NoValue) <=> (op \in {"transfer_token", "approve_token"})
     /\ (v.data # NoValue) <=> (op = "custom")}

WalletIds(ws) == {ws[i].id : i \in 1..Len(ws)}

\* handleWalletSelectionChange(selectedRowKeys): a click on the row of id; the
\* table reports the keys of its rows only
ToggleWallet(id) ==
  /\ Editable
  /\ id \in WalletIds(wallets)
  /\ LET shown == SelectSeqBy(selectedWallets, WalletIds(wallets))
     IN selectedWallets' =
          IF id \in Range(shown) THEN SelectSeqBy(shown, Range(shown) \ {id})
          ELSE Append(shown, id)
  /\ UNCHANGED <<probe, importing, storeVars, operationType, formValues, confirmModalVisible,
                 operationInProgress, loading, results, showResults, progress,
                 errorModal, decryptLog, bulk>>

\* handleOperationTypeChange(value)
SetOperationType(value) ==
  /\ Editable
  /\ value # operationType
  /\ operationType' = value
  /\ UNCHANGED <<probe, importing, storeVars, selectedWallets, formValues, confirmModalVisible,
                 operationInProgress, loading, results, showResults, progress,
                 errorModal, decryptLog, bulk>>

\* handleExecuteOperation: the form's onFinish
HandleExecuteOperation(values) ==
  /\ PageIdle
  /\ values \in ValidForm(operationType)
  /\ IF masterPassword = NoValue
     THEN /\ errorModal' = "Master Password Required"
          /\ UNCHANGED <<confirmModalVisible, formValues>>
     ELSE IF Len(selectedWallets) = 0
     THEN /\ errorModal' = "No Wallets Selected"
          /\ UNCHANGED <<confirmModalVisible, formValues>>
     ELSE /\ confirmModalVisible' = TRUE
          /\ formValues' = values
          /\ UNCHANGED errorModal
  /\ UNCHANGED <<probe, importing, storeVars, selectedWallets, operationType, operationInProgress,
                 loading, results, showResults, progress, decryptLog, bulk>>

\* The OK button of a Modal.error
DismissError ==
  /\ errorModal # NoValue
  /\ errorModal' = NoValue
  /\ decryptLog' = <<>>
  /\ UNCHANGED <<probe, importing, storeVars, selectedWallets, operationType, formValues,
                 confirmModalVisible, operationInProgress, loading, results,
                 showResults, progress, bulk>>

\* onCancel of the confirm modal
CancelConfirm ==
  /\ confirmModalVisible /\ ~operationInProgress /\ errorModal = NoValue
  /\ confirmModalVisible' = FALSE
  /\ formValues' = EmptyParams
  /\ UNCHANGED <<probe, importing, storeVars, selectedWallets, operationType,
                 operationInProgress, loading, results, showResults, progress,
                 errorModal, decryptLog, bulk>>

RECURSIVE BalanceAddresses_SkipsWatchOnly(_, _)
\* BalanceAddresses leaving out the watch-only records
BalanceAddresses_SkipsWatchOnly(ws, ids) ==
  IF ids = <<>> THEN <<>>
  ELSE (IF HasWallet(ws, Head(ids)) /\ ~FindWallet(ws, Head(ids)).isWatchOnly
        THEN <<FindWallet(ws, Head(ids)).address>>
        ELSE <<>>) \o BalanceAddresses_SkipsWatchOnly(ws, Tail(ids))

RECURSIVE BalanceAddresses(_, _)
\* selectedWallets.map(id => wallet ? wallet.address : "").filter(a => a !== "")
BalanceAddresses(ws, ids) ==
  IF ids = <<>> THEN <<>>
  ELSE (IF HasWallet(ws, Head(ids)) THEN <<FindWallet(ws, Head(ids)).address>>
        ELSE <<>>) \o BalanceAddresses(ws, Tail(ids))

RECURSIVE CollectKeys_NoSkip(_, _, _)
\* CollectKeys without the `if (wallet?.isWatchOnly) continue`
CollectKeys_NoSkip(ws, pw, ids) ==
  IF ids = <<>> THEN [keys |-> <<>>, log |-> <<>>]
  ELSE LET walletId == Head(ids)
           rest == CollectKeys_NoSkip(ws, pw, Tail(ids))
           decryptedWallet == getDecryptedWallet(ws, pw, walletId)
       IN [keys |-> (IF decryptedWallet.ok THEN <<decryptedWallet.privateKey>>
                     ELSE <<>>) \o rest.keys,
           log |-> <<[id |-> walletId, attempted |-> decryptedWallet.attempted]>>
                   \o rest.log]

RECURSIVE CollectKeys(_, _, _)
\* The loop of executeOperation over selectedWallets: [keys, log]; log is one
\* entry per getDecryptedWallet call
CollectKeys(ws, pw, ids) ==
  IF ids = <<>> THEN [keys |-> <<>>, log |-> <<>>]
  ELSE LET walletId == Head(ids)
           rest == CollectKeys(ws, pw, Tail(ids))
       IN IF HasWallet(ws, walletId) /\ FindWallet(ws, walletId).isWatchOnly
          THEN rest
          ELSE LET decryptedWallet == getDecryptedWallet(ws, pw, walletId) IN
            [keys |-> (IF decryptedWallet.ok THEN <<decryptedWallet.privateKey>>
                       ELSE <<>>) \o rest.keys,
             log |-> <<[id |-> walletId, attempted |-> decryptedWallet.attempted]>>
                     \o rest.log]

BulkFnOf(op) ==
  IF op = "send" THEN "bulkSend"
  ELSE IF op = "transfer_token" THEN "bulkTransferToken"
  ELSE IF op = "approve_token" THEN "bulkApproveToken"
  ELSE IF op = "custom" THEN "bulkCustomTransaction"
  ELSE "bulkCheckNativeBalance"

\* executeOperation without its check for an empty input list
NoInputs_Unchecked(inputs) == FALSE

\* if (addresses.length === 0) throw ... / if (privateKeys.length === 0) throw ...
NoInputs(inputs) == Len(inputs) = 0

\* executeOperation, from the OK click to its first await of a bulk function,
\* or through its catch and finally when it throws before
ExecuteOperation ==
  /\ confirmModalVisible /\ ~operationInProgress /\ errorModal = NoValue
  /\ results' = <<>>
  /\ showResults' = FALSE
  /\ LET isBalance == operationType = "check_native_balance"
         collected == IF isBalance THEN [keys |-> <<>>, log |-> <<>>]
                      ELSE CollectKeys(wallets, masterPassword, selectedWallets)
         inputs == IF isBalance THEN BalanceAddresses(wallets, selectedWallets)
                   ELSE collected.keys
     IN /\ decryptLog' = collected.log
        /\ IF NoInputs(inputs)
           THEN /\ errorModal' = "Operation Failed"
                /\ loading' = FALSE
                /\ operationInProgress' = FALSE
                /\ confirmModalVisible' = FALSE
                /\ formValues' = EmptyParams
                /\ UNCHANGED <<progress, bulk>>
           ELSE /\ operationInProgress' = TRUE
                /\ loading' = TRUE
                /\ progress' = [current |-> 0, total |-> Len(inputs)]
                /\ bulk' = Call(BulkFnOf(operationType), inputs,
                                IF isBalance THEN EmptyParams ELSE formValues)
                /\ UNCHANGED <<errorModal, confirmModalVisible, formValues>>
  /\ UNCHANGED <<probe, importing, storeVars, selectedWallets, operationType>>

\* executeOperation without its finally block
ExecuteFinish_NoFinally ==
  /\ operationInProgress
  /\ bulk.pc \in {"returned", "threw"}
  /\ IF bulk.pc = "returned"
     THEN results' = bulk.results /\ showResults' = TRUE /\ UNCHANGED errorModal
     ELSE errorModal' = "Operation Failed" /\ UNCHANGED <<results, showResults>>
  /\ bulk' = IdleBulk
  /\ formValues' = EmptyParams
  /\ decryptLog' = <<>>
  /\ UNCHANGED <<probe, importing, storeVars, selectedWallets, operationType, progress,
                 loading, operationInProgress, confirmModalVisible>>

\* executeOperation after the bulk function's promise settles
ExecuteFinish ==
  /\ operationInProgress
  /\ bulk.pc \in {"returned", "threw"}
  /\ IF bulk.pc = "returned"
     THEN results' = bulk.results /\ showResults' = TRUE /\ UNCHANGED errorModal
     ELSE errorModal' = "Operation Failed" /\ UNCHANGED <<results, showResults>>
  /\ loading' = FALSE
  /\ operationInProgress' = FALSE
  /\ confirmModalVisible' = FALSE
  /\ bulk' = IdleBulk
  /\ formValues' = EmptyParams
  /\ decryptLog' = <<>>
  /\ UNCHANGED <<probe, importing, storeVars, selectedWallets, operationType, progress>>

\* ------------------------------------------------------------- specifications
EmptyStorage == [ls_wallets |-> None, ss_wallets |-> None, ls_legacy_wallets |-> None,
                 ls_has_password |-> None, ls_encrypted_master_password |-> None]

InitStore ==
  /\ wallets = <<>>
  /\ masterPassword = NoValue
  /\ isPasswordSet = FALSE
  /\ storage = EmptyStorage
  /\ now = 0
  /\ passwordEntered = FALSE

InitUI ==
  /\ selectedWallets = <<>>
  /\ operationType = "send"
  /\ formValues = EmptyParams
  /\ confirmModalVisible = FALSE
  /\ operationInProgress = FALSE
  /\ loading = FALSE
  /\ results = <<>>
  /\ showResults = FALSE
  /\ progress = NoValue
  /\ errorModal = NoValue
  /\ decryptLog = <<>>

InitAux ==
  /\ probe = NoValue
  /\ importing = None

Init == InitStore /\ InitUI /\ InitAux /\ bulk = IdleBulk

Next ==
  \/ \E password \in Passwords, salt \in Salts : SetMasterPassword(password, salt)
  \/ \E key \in ValidKeys, salt \in Salts : AddWallet(NoName, key, now + 1, salt)
  \/ ImportWatchOnlyWallet(NoName, WatchAddress, now + 1)
  \/ \E id \in WalletIds(wallets) : RemoveWallet(id)
  \/ \E id \in WalletIds(wallets) : ToggleWallet(id)
  \/ \E value \in OperationTypes : SetOperationType(value)
  \/ \E values \in ValidForm(operationType) : HandleExecuteOperation(values)
  \/ DismissError
  \/ CancelConfirm
  \/ ExecuteOperation
  \/ BulkIter
  \/ \E outcome \in {"18"} \cup ProviderErrors : SettleDecimals(outcome)
  \/ \E outcome \in Outcomes : SettleTx(outcome)
  \/ \E r \in bulk.pending, outcome \in Outcomes : SettleRead(r.w, r.kind, outcome)
  \/ ExecuteFinish

Spec == Init /\ [][Next]_vars

\* The page of a user who sets one password and then creates wallets, selects
\* them and runs batches
NextLive ==
  \/ \E salt \in Salts : SetMasterPassword("pw1", salt)
  \/ \E salt \in Salts : AddWallet(NoName, "0xk1", now + 1, salt)
  \/ ImportWatchOnlyWallet(NoName, WatchAddress, now + 1)
  \/ \E id \in WalletIds(wallets) : ToggleWallet(id)
  \/ \E value \in OperationTypes : SetOperationType(value)
  \/ \E values \in ValidForm(operationType) : HandleExecuteOperation(values)
  \/ DismissError
  \/ CancelConfirm
  \/ ExecuteOperation
  \/ BulkIter
  \/ \E outcome \in {"18"} \cup ProviderErrors : SettleDecimals(outcome)
  \/ \E outcome \in Outcomes : SettleTx(outcome)
  \/ \E r \in bulk.pending, outcome \in Outcomes : SettleRead(r.w, r.kind, outcome)
  \/ ExecuteFinish

\* That page when every provider call eventually settles and the event loop
\* runs every continuation that is ready: the loop of the bulk function and
\* the rest of executeOperation are promise continuations, which the user
\* cannot hold back.
SpecLive ==
  /\ Init
  /\ [][NextLive]_vars
  /\ WF_vars(BulkIter)
  /\ WF_vars(\E outcome \in {"18"} \cup ProviderErrors : SettleDecimals(outcome))
  /\ WF_vars(\E outcome \in Outcomes : SettleTx(outcome))
  /\ WF_vars(\E r \in bulk.pending, outcome \in Outcomes :
               SettleRead(r.w, r.kind, outcome))
  /\ WF_vars(ExecuteFinish)

\* A bulk function called directly, with every input list and parameter record
RECURSIVE SeqsUpTo(_, _)
SeqsUpTo(S, n) ==
  IF n = 0 THEN {<<>>}
  ELSE LET shorter == SeqsUpTo(S, n - 1)
       IN shorter \cup {Append(q, x) : q \in shorter, x \in S}

AllParams == [to : {"0xTo"}, value : {NoValue, "1", "max"},
              tokenAddress : {NoValue, "0xT"}, data : {NoValue, "0xdata"}]

InitBulk ==
  /\ InitStore
  /\ InitUI
  /\ InitAux
  /\ \/ \E fn \in TxFns, keys \in SeqsUpTo(ValidKeys \cup {BadKey}, MaxBatch),
           params \in AllParams : bulk = Call(fn, keys, params)
     \/ \E addresses \in SeqsUpTo({"0xA1", "0xA2"}, MaxBatch) :
           bulk = Call("bulkCheckNativeBalance", addresses, EmptyParams)

NextBulk ==
  \/ BulkIter
  \/ \E outcome \in TokenDecimals \cup ProviderErrors : SettleDecimals(outcome)
  \/ \E outcome \in Outcomes : SettleTx(outcome)
  \/ \E r \in bulk.pending, outcome \in Outcomes : SettleRead(r.w, r.kind, outcome)

SpecBulk == InitBulk /\ [][NextBulk]_vars

\* The wallet store alone: every store operation with every input, the clock
\* standing still or advancing between two readings, and page reloads
LabelsFit ==
  \A type \in {"Generated Wallet #", "Imported Wallet #"} :
    generateWalletName(wallets, type)[2] <= MaxLabel

NextStore ==
  \/ \E password \in Passwords, salt \in Salts : SetMasterPassword(password, salt)
  \/ \E name \in Names \cup {NoName}, key \in {"0xk2"}, t \in {now, now + 1},
        salt \in Salts : LabelsFit /\ AddWallet(name, key, t, salt)
  \/ \E name \in {NoName}, privateKey \in {"0xk1", BadKey, WatchAddress},
        t \in {now, now + 1}, salt \in Salts :
        LabelsFit /\ ImportWallet(name, privateKey, t, salt)
  \/ \E name \in {NoName}, address \in {WatchAddress, BadAddress},
        t \in {now, now + 1} : ImportWatchOnlyWallet(name, address, t)
  \/ \E inputs \in SeqsUpTo(ImportInputs, MaxWallets - Len(wallets)),
        t \in {now, now + 1},
        salt \in Salts :
        \* the loop of an import takes less than a millisecond here
        LabelsFit /\ BulkImportWallets(inputs, [i \in 1..Len(inputs) |-> t], salt)
  \/ \E id \in WalletIds(wallets) \cup {AbsentId} : RemoveWallet(id)
  \/ Reload

SpecStore == Init /\ [][NextStore]_vars

\* ------------------------------------------------------------- key functions
\* One call of a key function on one string: the validators and constructors
\* take the string alone, encryptWallet / encryptSolanaWallet are followed by
\* the decryption of what they returned.
KeyChecks == {"isValidPrivateKey", "isValidSolanaPrivateKey",
              "createSolanaWalletFromPrivateKey"}

KeyCall(fn, input, password, salt) ==
  [fn |-> fn, input |-> input, password |-> password, salt |-> salt,
   cipher |-> None, decryptPassword |-> NoValue, out |-> None]

InitKeys ==
  /\ InitStore
  /\ InitUI
  /\ bulk = IdleBulk
  /\ importing = None
  /\ \/ \E fn \in KeyChecks, input \in KeyStrings :
           probe = KeyCall(fn, input, NoValue, NoValue)
     \/ \E input \in KeyStrings, password \in Passwords, salt \in Salts :
           probe = KeyCall("encryptSolanaWallet", input, password, salt)
     \/ \E input \in ValidKeys \cup KeyForms \cup {BadKey},
           password \in Passwords, salt \in Salts :
           probe = KeyCall("encryptWallet", input, password, salt)

\* the validator or constructor returns
KeyCheck ==
  /\ probe.fn \in KeyChecks
  /\ probe.out = None
  /\ probe' = [probe EXCEPT !.out = Some(
       IF probe.fn = "isValidPrivateKey"
       THEN [ok |-> isValidPrivateKey(probe.input)]
       ELSE IF probe.fn = "isValidSolanaPrivateKey"
       THEN [ok |-> isValidSolanaPrivateKey(probe.input)]
       ELSE createSolanaWalletFromPrivateKey(probe.input))]
  /\ UNCHANGED <<storeVars, uiVars, bulk, importing>>

\* encryptWallet / encryptSolanaWallet returns the ciphertext
KeyEncrypt ==
  /\ probe.fn \in {"encryptWallet", "encryptSolanaWallet"}
  /\ probe.cipher = None
  /\ probe' = [probe EXCEPT !.cipher = Some(
       IF probe.fn = "encryptWallet"
       THEN encryptWallet(probe.input, probe.password, probe.salt)
       ELSE encryptSolanaWallet(probe.input, probe.password, probe.salt))]
  /\ UNCHANGED <<storeVars, uiVars, bulk, importing>>

\* decryptWallet / decryptSolanaWallet of that ciphertext under a password
KeyDecrypt(password) ==
  /\ probe.cipher # None
  /\ probe.out = None
  /\ probe' = [probe EXCEPT
       !.decryptPassword = password,
       !.out = Some(IF probe.fn = "encryptWallet"
                    THEN decryptWallet(probe.cipher[1], password)
                    ELSE decryptSolanaWallet(probe.cipher[1], password))]
  /\ UNCHANGED <<storeVars, uiVars, bulk, importing>>

NextKeys ==
  \/ KeyCheck
  \/ KeyEncrypt
  \/ \E password \in Passwords : KeyDecrypt(password)

SpecKeys == InitKeys /\ [][NextKeys]_vars

\* ------------------------------------------------------------- store, awaiting
\* The store with bulkImportWallets as the two steps its awaits make of it:
\* the other operations of the provider run between the two.
NextRace ==
  \/ \E salt \in Salts : SetMasterPassword("pw1", salt)
  \/ \E t \in {now, now + 1}, salt \in Salts :
        LabelsFit /\ AddWallet(NoName, "0xk2", t, salt)
  \/ \E t \in {now, now + 1} : ImportWatchOnlyWallet(NoName, WatchAddress, t)
  \/ \E id \in WalletIds(wallets) : RemoveWallet(id)
  \/ \E inputs \in SeqsUpTo(ImportInputs, MaxWallets - Len(wallets)), salt \in Salts :
        LabelsFit /\ BulkImportStart(inputs, salt)
  \/ \E t \in {now, now + 1} : BulkImportFinish(t)

SpecRace == Init /\ [][NextRace]_vars

\* ------------------------------------------------------------- store, persisted
\* What an earlier version of the page left under the legacy key "wallets"
LegacyWallet ==
  [id |-> DateNowToString(0), name |-> <<"My Wallet">>, address |-> AddressOf("0xk1"),
   encryptedPrivateKey |-> encryptWallet("0xk1", "pw1", "s1"), isWatchOnly |-> FALSE]

StoragesLeft ==
  {EmptyStorage,
   [EmptyStorage EXCEPT !.ls_legacy_wallets = JSONStringify(<<LegacyWallet>>)]}

\* The page after its first load over the storage an earlier session left
InitPersist ==
  /\ \E left \in StoragesLeft :
       LET loadedWallets == LoadWallets(left) IN
       IF loadedWallets # None
       THEN /\ wallets = JSONParse(loadedWallets)
            /\ storage = saveWalletsToLocalStorage(left, JSONParse(loadedWallets))
       ELSE /\ wallets = <<>>
            /\ storage = left
  /\ masterPassword = NoValue
  /\ isPasswordSet = FALSE
  /\ now = 0
  /\ passwordEntered = FALSE
  /\ InitUI
  /\ InitAux
  /\ bulk = IdleBulk

NextPersist ==
  \/ \E salt \in Salts : SetMasterPassword("pw1", salt)
  \/ \E t \in {now, now + 1}, salt \in Salts :
        LabelsFit /\ AddWallet(NoName, "0xk2", t, salt)
  \/ \E t \in {now, now + 1}, salt \in Salts :
        LabelsFit /\ ImportWallet(NoName, "0xk1", t, salt)
  \/ \E t \in {now, now + 1} : ImportWatchOnlyWallet(NoName, WatchAddress, t)
  \/ \E inputs \in SeqsUpTo({"0xk1"}, MaxWallets - Len(wallets)),
        t \in {now, now + 1}, salt \in Salts :
        LabelsFit /\ BulkImportWallets(inputs, [i \in 1..Len(inputs) |-> t], salt)
  \/ \E id \in WalletIds(wallets) : RemoveWallet(id)
  \/ Reload

SpecPersist == InitPersist /\ [][NextPersist]_vars

\* ------------------------------------------------------------- properties
\* The address the j-th input of a bulk call stands for
InputAddress(b, j) ==
  IF b.fn = "bulkCheckNativeBalance" THEN b.keys[j] ELSE AddressOf(b.keys[j])

\* The wallets one of whose provider requests was rejected
Rejected(b) == {x.w : x \in {y \in b.settled : ~y.ok}}

\* The inputs C1 speaks of: usable keys, a token address where one is needed,
\* an amount the function can parse
UsableKeys(b) ==
  b.fn = "bulkCheckNativeBalance" \/ \A j \in 1..Len(b.keys) : IsValidKey(b.keys[j])
WellFormedParams(b) ==
  /\ b.fn \in TokenFns => b.params.tokenAddress # NoValue
  /\ \/ b.params.value = NoValue
     \/ IsDecimalString(b.params.value)
     \/ b.fn = "bulkApproveToken" /\ b.params.value = "max"
     \/ b.fn = "bulkCheckNativeBalance"

\* C1: with usable keys (or addresses) and well-formed parameters, whichever
\* wallets' provider calls are rejected, a bulk function never throws; the
\* j-th result is the j-th wallet's, failed with a non-empty error when one of
\* its provider calls was rejected and successful otherwise; and the function
\* returns with one result and at least one provider request per wallet.
C1_FailureIsolation ==
  (bulk.pc # "idle" /\ UsableKeys(bulk) /\ WellFormedParams(bulk)) =>
    /\ bulk.pc # "threw"
    /\ Len(bulk.results) <= Len(bulk.keys)
    /\ \A j \in 1..Len(bulk.results) :
         LET r == bulk.results[j] IN
         /\ r.walletAddress = InputAddress(bulk, j)
         /\ IF j \in Rejected(bulk)
            THEN r.success = FALSE /\ "error" \in DOMAIN r /\ r.error # ""
            ELSE r.success = TRUE
    /\ bulk.pc = "returned" =>
         /\ Len(bulk.results) = Len(bulk.keys)
         /\ \A j \in 1..Len(bulk.keys) :
              \E c \in 1..Len(bulk.calls) : bulk.calls[c].w = j

\* A call over three wallets has returned; the second wallet's request was
\* rejected and the third wallet's succeeded after it.
C1_Witness ==
  /\ bulk.fn = "bulkSend"
  /\ bulk.pc = "returned"
  /\ Len(bulk.keys) = 3
  /\ Rejected(bulk) = {2}
  /\ bulk.results[2].success = FALSE
  /\ bulk.results[3].success = TRUE

\* The selected ids that do not name a watch-only record of the store, in
\* selection order: the wallets a signing operation does not skip
RECURSIVE NotWatchOnly(_, _)
NotWatchOnly(ws, ids) ==
  IF ids = <<>> THEN <<>>
  ELSE (IF \E i \in 1..Len(ws) : ws[i].id = Head(ids) /\ ws[i].isWatchOnly
        THEN <<>> ELSE <<Head(ids)>>) \o NotWatchOnly(ws, Tail(ids))

SigningRun == operationInProgress /\ operationType # "check_native_balance"
BalanceRun == operationInProgress /\ operationType = "check_native_balance"

\* C2: when the bulk function of a signing operation has returned, its result
\* list has one entry for each selected wallet that is not watch-only, in
\* selection order, entry j carrying the address of the j-th such wallet where
\* the store still holds it.
C2_OneEntryPerSigningWallet ==
  (SigningRun /\ bulk.pc = "returned") =>
    LET due == NotWatchOnly(wallets, selectedWallets) IN
    /\ Len(bulk.results) = Len(due)
    /\ \A j \in 1..Len(due) :
         HasWallet(wallets, due[j]) =>
           bulk.results[j].walletAddress = FindWallet(wallets, due[j]).address

\* C3: every onProgress(i, total) call is made when wallet i's result has
\* already been recorded.
C3_ProgressAfterAttempt ==
  \A c \in 1..Len(bulk.progressCalls) :
    bulk.progressCalls[c].recorded >= bulk.progressCalls[c].current

C5_ResultShape ==
  \A j \in 1..Len(bulk.results) :
    LET r == bulk.results[j]
        set(f) == f \in DOMAIN r
    IN /\ set("error") <=> (r.success = FALSE)
       /\ (r.success /\ bulk.fn \in TxFns) => set("txHash") /\ ~set("balance")
       /\ (r.success /\ bulk.fn = "bulkCheckNativeBalance") =>
            set("balance") /\ set("txCount") /\ ~set("txHash")
       /\ ~r.success => ~set("txHash") /\ ~set("balance")

\* A result list with a success and a failure
C5_Witness ==
  /\ bulk.pc = "returned"
  /\ \E j, k \in 1..Len(bulk.results) :
       bulk.results[j].success /\ ~bulk.results[k].success

\* The records of the store that the selected ids name and that are watch-only
SelectedWatchOnly ==
  {FindWallet(wallets, id) : id \in {x \in Range(selectedWallets) :
     HasWallet(wallets, x) /\ FindWallet(wallets, x).isWatchOnly}}

\* C6: a watch-only wallet selected for a signing operation is skipped:
\* getDecryptedWallet is not called for it, none of the keys handed to the
\* bulk function is its key, no provider request and no result is for its
\* address; and getDecryptedWallet returns no key for a watch-only record
\* under any password.
C6_WatchOnlySkipped ==
  /\ \A e \in 1..Len(decryptLog) :
       ~(HasWallet(wallets, decryptLog[e].id)
         /\ FindWallet(wallets, decryptLog[e].id).isWatchOnly)
  /\ SigningRun =>
       \A w \in SelectedWatchOnly :
         /\ \A j \in 1..Len(bulk.keys) : AddressOf(bulk.keys[j]) # w.address
         /\ \A c \in 1..Len(bulk.calls) :
              AddressOf(bulk.keys[bulk.calls[c].w]) # w.address
         /\ \A j \in 1..Len(bulk.results) :
              bulk.results[j].walletAddress # w.address
  /\ \A i \in 1..Len(wallets), pw \in Passwords \cup {NoValue} :
       FindWallet(wallets, wallets[i].id).isWatchOnly =>
         ~getDecryptedWallet(wallets, pw, wallets[i].id).ok

\* A signing batch over a watch-only wallet and a signing wallet has returned
C6_Witness ==
  /\ SigningRun
  /\ bulk.pc = "returned"
  /\ SelectedWatchOnly # {}
  /\ Len(bulk.results) = 1
  /\ Len(selectedWallets) = 2

\* C7: during a balance check getDecryptedWallet is never called; the
\* addresses handed to bulkCheckNativeBalance are the stored addresses of the
\* selected wallets the store holds, watch-only or not, in selection order;
\* and when it has returned the result list has one entry per such wallet,
\* in that order.
C7_BalanceCheckNeedsNoSecret ==
  BalanceRun =>
    LET found == SelectSeqBy(selectedWallets, WalletIds(wallets)) IN
    /\ decryptLog = <<>>
    /\ Len(bulk.keys) = Len(found)
    /\ \A j \in 1..Len(found) :
         bulk.keys[j] = FindWallet(wallets, found[j]).address
    /\ bulk.pc = "returned" =>
         /\ Len(bulk.results) = Len(found)
         /\ \A j \in 1..Len(found) :
              bulk.results[j].walletAddress = FindWallet(wallets, found[j]).address

\* A balance check over a watch-only and a signing wallet has returned
C7_Witness ==
  /\ BalanceRun
  /\ bulk.pc = "returned"
  /\ Len(bulk.results) = 2
  /\ SelectedWatchOnly # {}
  /\ \E id \in Range(selectedWallets) :
       HasWallet(wallets, id) /\ ~FindWallet(wallets, id).isWatchOnly

ReadOk(b, j, kind) == \E s \in b.settled : s.w = j /\ s.kind = kind /\ s.ok
ReadRejected(b, j) ==
  \E s \in b.settled :
    s.w = j /\ s.kind \in {"getBalance", "getTransactionCount"} /\ ~s.ok

\* C8: in bulkCheckNativeBalance the j-th result is the j-th address's; it is
\* a success (with balance and txCount) exactly when both reads of that
\* address succeeded and a failure with an error exactly when one of them was
\* rejected; the function never throws and returns one result per address.
C8_BalanceReads ==
  bulk.fn = "bulkCheckNativeBalance" =>
    /\ bulk.pc # "threw"
    /\ Len(bulk.results) <= Len(bulk.keys)
    /\ \A j \in 1..Len(bulk.keys) :
         LET bothOk == ReadOk(bulk, j, "getBalance")
                       /\ ReadOk(bulk, j, "getTransactionCount")
             recorded == j <= Len(bulk.results)
         IN /\ bothOk <=> (recorded /\ bulk.results[j].success)
            /\ ReadRejected(bulk, j) <=> (recorded /\ ~bulk.results[j].success)
            /\ recorded =>
                 /\ bulk.results[j].walletAddress = bulk.keys[j]
                 /\ IF bulk.results[j].success
                    THEN {"balance", "txCount"} \subseteq DOMAIN bulk.results[j]
                    ELSE "error" \in DOMAIN bulk.results[j]
    /\ bulk.pc = "returned" => Len(bulk.results) = Len(bulk.keys)

\* Three addresses, the second one's read rejected: [success, fail, success]
C8_Witness ==
  /\ bulk.fn = "bulkCheckNativeBalance"
  /\ bulk.pc = "returned"
  /\ Len(bulk.results) = 3
  /\ bulk.results[1].success /\ ~bulk.results[2].success /\ bulk.results[3].success

\* C9: a bulk function runs only inside a batch, and a batch is in progress
\* only with the master password set, a wallet selected and at least one key
\* or address to work on; while a setup error is reported no bulk call has
\* been made, and one reported by executeOperation leaves an empty result
\* list that is not shown; a shown result list is never empty.
C9_SetupErrorsAreFatal ==
  /\ bulk.pc # "idle" => operationInProgress
  /\ operationInProgress =>
       /\ masterPassword # NoValue
       /\ Len(selectedWallets) > 0
       /\ Len(bulk.keys) > 0
  /\ errorModal # NoValue => bulk = IdleBulk /\ ~operationInProgress
  /\ errorModal = "Operation Failed" => results = <<>> /\ ~showResults
  /\ showResults => Len(results) > 0

\* executeOperation has reported that no selected wallet yields a key
C9_Witness ==
  /\ errorModal = "Operation Failed"
  /\ masterPassword # NoValue
  /\ Len(selectedWallets) > 0
  /\ operationType # "check_native_balance"

\* C10: a bulk function given a malformed specification rejects it before it
\* processes a wallet: bulkTransferToken and bulkApproveToken called without
\* a token address throw with no progress call and no provider request made,
\* and bulkCustomTransaction never submits a transaction without call data.
C10_MalformedSpecRejected ==
  /\ (bulk.pc # "idle" /\ bulk.fn \in TokenFns
      /\ bulk.params.tokenAddress = NoValue) =>
       /\ bulk.pc = "threw"
       /\ bulk.calls = <<>>
       /\ bulk.progressCalls = <<>>
  /\ bulk.fn = "bulkCustomTransaction" =>
       \A c \in 1..Len(bulk.calls) :
         bulk.calls[c].kind = "sendTransaction" => bulk.calls[c].data # NoValue

\* C11: wallets are processed one at a time: a provider request for a wallet
\* is outstanding only when the results of all wallets before it have been
\* recorded, requests of two wallets are never outstanding together, and
\* more than one request is outstanding only for the two reads of one address
\* of a balance check.
C11_ConcurrencyOne ==
  /\ \A p \in bulk.pending : Len(bulk.results) >= p.w - 1
  /\ \A p, q \in bulk.pending : p.w = q.w
  /\ Cardinality(bulk.pending) > 1 =>
       /\ bulk.fn = "bulkCheckNativeBalance"
       /\ {p.kind : p \in bulk.pending} = {"getBalance", "getTransactionCount"}

\* C12: a bulk transaction function given its token address never throws,
\* whatever the keys; a key from which no wallet can be built gets a failed
\* result and the loop goes on to the end of the list.
C12_NoErrorCrossesBatch ==
  (bulk.fn \in TxFns
   /\ (bulk.fn \in TokenFns => bulk.params.tokenAddress # NoValue)) =>
    /\ bulk.pc # "threw"
    /\ \A j \in 1..Len(bulk.results) :
         ~IsValidKey(bulk.keys[j]) => ~bulk.results[j].success
    /\ bulk.pc = "returned" => Len(bulk.results) = Len(bulk.keys)

DecimalsRejected(b, j) ==
  \E s \in b.settled : s.w = j /\ s.kind = "decimals" /\ ~s.ok
DecimalsRead(b, j) ==
  \E s \in b.settled : s.w = j /\ s.kind = "decimals" /\ s.ok
Submitted(b, j) ==
  \E c \in 1..Len(b.calls) :
    b.calls[c].w = j /\ b.calls[c].kind \in {"transfer", "approve"}

\* C13: in bulkTransferToken and bulkApproveToken (usable keys, an amount
\* that parses) a rejected decimals read of wallet j gives wallet j a failed
\* result and no transfer/approve; the function does not throw; every wallet
\* gets its own decimals read, and a wallet whose read succeeded gets its
\* transfer/approve submitted, whatever happened to the others.
C13_DecimalsFailureIsolated ==
  (bulk.fn \in TokenFns /\ bulk.pc # "idle" /\ UsableKeys(bulk)
   /\ WellFormedParams(bulk)) =>
    /\ bulk.pc # "threw"
    /\ \A j \in 1..Len(bulk.keys) :
         /\ DecimalsRejected(bulk, j) =>
              /\ j <= Len(bulk.results)
              /\ ~bulk.results[j].success
              /\ ~Submitted(bulk, j)
         /\ DecimalsRead(bulk, j) => Submitted(bulk, j)
         /\ j <= Len(bulk.results) =>
              /\ DecimalsRejected(bulk, j) \/ DecimalsRead(bulk, j)
              /\ Cardinality({c \in 1..Len(bulk.calls) :
                   bulk.calls[c].w = j /\ bulk.calls[c].kind = "decimals"}) = 1
    /\ bulk.pc = "returned" => Len(bulk.results) = Len(bulk.keys)

\* Three wallets: the second one's decimals read was rejected, the first and
\* the third had their transfer submitted
C13_Witness ==
  /\ bulk.fn = "bulkTransferToken"
  /\ bulk.pc = "returned"
  /\ Len(bulk.keys) = 3
  /\ DecimalsRejected(bulk, 2) /\ ~Submitted(bulk, 2)
  /\ Submitted(bulk, 1) /\ Submitted(bulk, 3)
  /\ bulk.results[3].success

\* C14: bulkApproveToken with value "max" submits MaxUint256, not scaled;
\* bulkTransferToken with value "max" submits nothing and every recorded
\* result is a failure; every other amount submitted is the value (or "0")
\* scaled by the decimals that wallet's decimals read returned.
C14_MaxOnlyForApprove ==
  (bulk.fn \in TokenFns /\ bulk.pc # "idle" /\ UsableKeys(bulk)
   /\ bulk.params.tokenAddress # NoValue) =>
    /\ \A c \in 1..Len(bulk.calls) :
         bulk.calls[c].kind \in {"transfer", "approve"} =>
           IF bulk.params.value = "max"
           THEN bulk.fn = "bulkApproveToken" /\ bulk.calls[c].amount = "MaxUint256"
           ELSE \E s \in bulk.settled :
                  /\ s.w = bulk.calls[c].w /\ s.kind = "decimals" /\ s.ok
                  /\ <<IF bulk.params.value = NoValue THEN "0"
                       ELSE bulk.params.value, s.value>> = bulk.calls[c].amount
    /\ (bulk.fn = "bulkTransferToken" /\ bulk.params.value = "max") =>
         /\ \A j \in 1..Len(bulk.results) : ~bulk.results[j].success
         /\ bulk.pc \in {"returned", "threw"} =>
              bulk.pc = "returned" /\ Len(bulk.results) = Len(bulk.keys)
    /\ (bulk.fn = "bulkApproveToken" /\ bulk.params.value = "max") =>
         \A j \in 1..Len(bulk.results) :
           DecimalsRead(bulk, j) => Submitted(bulk, j)

\* An unlimited approval went out for one wallet and a scaled amount is
\* reachable too: the "max" approval of two wallets has returned
C14_Witness ==
  /\ bulk.fn = "bulkApproveToken"
  /\ bulk.params.value = "max"
  /\ bulk.pc = "returned"
  /\ Len(bulk.keys) = 2
  /\ \A j \in 1..2 : Submitted(bulk, j) /\ bulk.results[j].success

\* The signing records of the store, by position
SigningRecords == {i \in 1..Len(wallets) : ~wallets[i].isWatchOnly}
\* The password a record's secret was encrypted with
EncryptedUnder(w) == w.encryptedPrivateKey[2]

\* C15: getDecryptedWallet returns a key only when the master password is
\* set and is the password the record found under the id was encrypted with,
\* and then it is that record's key; for every signing record it returns null
\* under no password and under every other password; and
\* decryptWallet(encryptWallet(s, pw), pw2) fails whenever pw2 differs from pw.
C15_DecryptNeedsThePassword ==
  /\ \A i \in 1..Len(wallets) :
       LET found == FindWallet(wallets, wallets[i].id)
           r == getDecryptedWallet(wallets, masterPassword, wallets[i].id)
       IN r.ok =>
            /\ masterPassword # NoValue
            /\ ~found.isWatchOnly
            /\ EncryptedUnder(found) = masterPassword
            /\ r.privateKey = found.encryptedPrivateKey[1]
  /\ \A i \in SigningRecords, pw \in Passwords \cup {NoValue} :
       pw # EncryptedUnder(wallets[i]) =>
         ~getDecryptedWallet(<<wallets[i]>>, pw, wallets[i].id).ok
  /\ \A s \in ValidKeys, pw \in Passwords, pw2 \in Passwords, salt \in Salts :
       pw2 # pw => ~decryptWallet(encryptWallet(s, pw, salt), pw2).ok

\* The store holds a signing record encrypted under another password than
\* the current one, and getDecryptedWallet returns null for it
C15_Witness ==
  /\ masterPassword # NoValue
  /\ \E i \in SigningRecords :
       /\ EncryptedUnder(wallets[i]) # masterPassword
       /\ ~getDecryptedWallet(wallets, masterPassword, wallets[i].id).ok

\* C16: whenever the master password is set, getDecryptedWallet succeeds for
\* every signing record of the store, those created before the last
\* setMasterPassword included.
C16_RotationReencrypts ==
  masterPassword # NoValue =>
    \A i \in SigningRecords :
      getDecryptedWallet(<<wallets[i]>>, masterPassword, wallets[i].id).ok

\* C17: the storage holds no value from which the fixed passphrase of the
\* code recovers the master password, and after a page load the master
\* password is unset until setMasterPassword is called.
C17_MasterPasswordNeverStored ==
  /\ storage.ls_encrypted_master_password # None =>
       decryptMasterPassword(storage.ls_encrypted_master_password[1])
         \notin Passwords
  /\ ~passwordEntered => masterPassword = NoValue

SecretIffSigning(w) == (w.encryptedPrivateKey = <<>>) <=> w.isWatchOnly

\* C18: every record of the store, and of the lists saved in the storage,
\* has an empty encryptedPrivateKey exactly when it is watch-only; and every
\* record of the store after a step is a record the store held before it,
\* unchanged, or one the step appended.
C18_SecretIffNotWatchOnly ==
  /\ [](/\ \A i \in 1..Len(wallets) : SecretIffSigning(wallets[i])
        /\ \A saved \in {storage.ls_wallets, storage.ss_wallets} :
             saved # None =>
               \A i \in 1..Len(saved[1]) : SecretIffSigning(saved[1][i]))
  /\ [][\A j \in 1..Len(wallets') :
          wallets'[j] \in Range(wallets) \/ j > Len(wallets)]_vars

\* The store holds a watch-only record and a signing record
C18_Witness ==
  /\ \E i \in 1..Len(wallets) :
       wallets[i].isWatchOnly /\ wallets[i].encryptedPrivateKey = <<>>
  /\ \E i \in 1..Len(wallets) :
       ~wallets[i].isWatchOnly /\ wallets[i].encryptedPrivateKey # <<>>
  /\ storage.ls_wallets = Some(wallets)

\* C19: no two records of the store have the same id.
C19_UniqueIds ==
  \A i, j \in 1..Len(wallets) : i # j => wallets[i].id # wallets[j].id

\* The numbers of the names of ws made of the prefix and a number
LabelNumbers(ws, prefix) ==
  {ws[i].name[2] : i \in {j \in 1..Len(ws) :
     Len(ws[j].name) = 2 /\ ws[j].name[1] = prefix}}
HighestLabel(ws, prefix) ==
  IF LabelNumbers(ws, prefix) = {} THEN 0
  ELSE CHOOSE n \in LabelNumbers(ws, prefix) :
         \A m \in LabelNumbers(ws, prefix) : m <= n
CountLabels(ws, prefix) ==
  Cardinality({j \in 1..Len(ws) :
     Len(ws[j].name) = 2 /\ ws[j].name[1] = prefix})
\* A step appended one record that carries a generated label
AppendsGenerated ==
  /\ Len(wallets') = Len(wallets) + 1
  /\ SubSeq(wallets', 1, Len(wallets)) = wallets
  /\ Len(wallets'[Len(wallets')].name) = 2
  /\ wallets'[Len(wallets')].name[1] = "Generated Wallet #"

\* C20 (amended): addWallet without a label names the record "Generated
\* Wallet #N" with N = 1 + the highest number among the names of this kind
\* in the store at the call (1 when there is none).
C20_HighestPlusOne ==
  [][AppendsGenerated =>
       wallets'[Len(wallets')].name[2] =
         HighestLabel(wallets, "Generated Wallet #") + 1]_vars

\* C20 as stated: N = 1 + the number of records of the store that carry a
\* label of this kind.
C20_CountPlusOne ==
  [][AppendsGenerated =>
       wallets'[Len(wallets')].name[2] =
         CountLabels(wallets, "Generated Wallet #") + 1]_vars

\* After a deletion the store holds "Generated Wallet #3" next to one other
\* generated name: the number is not the count plus one
C20_Witness ==
  /\ \E i \in 1..Len(wallets) : wallets[i].name = <<"Generated Wallet #", 3>>
  /\ CountLabels(wallets, "Generated Wallet #") = 2

\* C21: auto-generated names never repeat: no two records of the store carry
\* the same "Generated Wallet #N" or "Imported Wallet #N" name, the wallets
\* imported by one bulkImportWallets call included.
C21_AutoLabelsNeverRepeat ==
  \A i, j \in 1..Len(wallets) :
    (i # j /\ Len(wallets[i].name) = 2
     /\ wallets[i].name[1] \in {"Generated Wallet #", "Imported Wallet #"}) =>
      wallets[i].name # wallets[j].name

\* The records of ws whose id is not id, in the order of ws
RECURSIVE Without(_, _)
Without(ws, id) ==
  IF ws = <<>> THEN <<>>
  ELSE IF Head(ws).id = id THEN Without(Tail(ws), id)
  ELSE <<Head(ws)>> \o Without(Tail(ws), id)

\* C22: removeWallet(id) deletes exactly the records whose id is id and keeps
\* every other record, unchanged and in the same order; with no such record the
\* list is unchanged, and a second removeWallet(id) would change nothing.
C22_RemoveExactlyById ==
  [][\A id \in WalletIds(wallets) \cup {AbsentId} :
       RemoveWallet(id) =>
         /\ wallets' = Without(wallets, id)
         /\ \A i \in 1..Len(wallets') : wallets'[i].id # id
         /\ Len(wallets') =
              Cardinality({i \in 1..Len(wallets) : wallets[i].id # id})
         /\ (id \notin WalletIds(wallets) => wallets' = wallets)
         /\ Without(wallets', id) = wallets'
         /\ storage'.ls_wallets = Some(wallets')]_vars

\* A removal has taken the first generated wallet and left the second
C22_Witness ==
  /\ Len(wallets) = 1
  /\ wallets[1].name = <<"Generated Wallet #", 2>>

\* A record of ws that the list old does not hold is a watch-only record
OnlyWatchOnlyAdded(old, ws) ==
  \A i \in 1..Len(ws) :
    ws[i].isWatchOnly \/ \E j \in 1..Len(old) : old[j] = ws[i]

\* The list persisted under meoa_wallets, empty when the key is absent
PersistedWallets(st) == IF st.ls_wallets = None THEN <<>> ELSE JSONParse(st.ls_wallets)

\* C23: while the master password is unset no operation adds a signing wallet
\* to the in-memory list or to the persisted list (addWallet, importWallet and
\* bulkImportWallets fail and change nothing); importWatchOnlyWallet works
\* without the password, and only an address of the form 0x + 40 hex digits
\* ever becomes a watch-only record.
C23_NoPasswordNoSigningWallet ==
  /\ [](\A i \in 1..Len(wallets) :
          wallets[i].isWatchOnly => AddressFormatOk(wallets[i].address))
  /\ [][masterPassword = NoValue =>
          /\ OnlyWatchOnlyAdded(wallets, wallets')
          /\ OnlyWatchOnlyAdded(PersistedWallets(storage), PersistedWallets(storage'))]_vars

\* A watch-only wallet was imported while the master password was unset
C23_Witness ==
  /\ masterPassword = NoValue
  /\ Len(wallets) > 0
  /\ \A i \in 1..Len(wallets) : wallets[i].isWatchOnly

\* The round trip of a valid secret s under the password it was encrypted with
RoundTripDone ==
  /\ probe.fn \in {"encryptWallet", "encryptSolanaWallet"}
  /\ probe.cipher # None
  /\ probe.out # None
  /\ probe.decryptPassword = probe.password
  /\ IF probe.fn = "encryptWallet" THEN IsValidKey(probe.input)
     ELSE createSolanaWalletFromPrivateKey(probe.input).ok

\* The form in which the key functions return a Solana secret: the hex of the
\* 64 bytes, lower case, no prefix
CanonicalSolanaKey(s) ==
  [prefix |-> FALSE, chars |-> 2 * SolanaSecretBytes, firstBad |-> 0,
   upper |-> FALSE, curveOk |-> TRUE]

\* C24 as stated: decryptWallet(encryptWallet(s, pw), pw) and
\* decryptSolanaWallet(encryptSolanaWallet(s, pw), pw) return a privateKey
\* equal to the string s, whatever its prefix and letter case.
C24_RoundTripReturnsInput ==
  RoundTripDone => probe.out[1].ok /\ probe.out[1].privateKey = probe.input

\* C24: the round trip under the same password succeeds for every valid secret
\* and returns the key in canonical form (0x-prefixed lower-case hex for
\* secp256k1, the lower-case hex of the 64 bytes without prefix for Solana),
\* which is the string s exactly when s was written in that form.
C24_RoundTripReturnsCanonical ==
  RoundTripDone =>
    /\ probe.out[1].ok
    /\ IF probe.fn = "encryptWallet"
       THEN /\ probe.out[1].privateKey = CanonicalKey(probe.input)
            /\ probe.out[1].privateKey \in ValidKeys
            /\ (probe.out[1].privateKey = probe.input <=> probe.input \in ValidKeys)
       ELSE /\ probe.out[1].privateKey = CanonicalSolanaKey(probe.input)
            /\ (probe.out[1].privateKey = probe.input <=>
                  (~probe.input.prefix /\ ~probe.input.upper
                   /\ probe.input.chars = SolanaHexChars
                   /\ probe.input.firstBad = 0))

\* A key written without 0x and in upper case came back from the round trip
C24_Witness ==
  /\ RoundTripDone
  /\ probe.fn = "encryptWallet"
  /\ probe.input = "K1"
  /\ probe.out[1].ok

\* C26: raw secrets are validated by length per curve family: a secp256k1
\* secret is accepted only as exactly 32 bytes (64 hex digits, 0x optional); an
\* Ed25519 secret is accepted as 32 bytes (a seed) or as 64 bytes (seed and
\* public key) and rejected at every other length.
C26_LengthValidatedPerCurve ==
  (probe.fn \in KeyChecks /\ probe.out # None) =>
    LET s == probe.input
        ok == probe.out[1].ok
    IN IF probe.fn = "isValidPrivateKey"
       THEN ok => (s.firstBad = 0 /\ s.chars = SecpHexChars)
       ELSE /\ (s.firstBad = 0 /\ 2 * s.chars = SolanaHexChars) => ok
            /\ (s.firstBad = 0 /\ s.chars = SolanaHexChars /\ s.curveOk) => ok
            /\ ok => (s.firstBad = 0 /\ s.chars \in {SolanaHexChars \div 2, SolanaHexChars})

\* The secret a signing record was encrypted from
SecretOf(w) == w.encryptedPrivateKey[1]

\* C25: the string 0x + 40 hex digits is refused by every signing import
\* (createWalletFromInput throws, the decryptWallet step of importWallet throws)
\* so that no record ever holds it as an encrypted secret, while
\* importWatchOnlyWallet accepts the same string and appends exactly one
\* watch-only record with that address and no secret.
C25_AddressIsNoSigningKey ==
  /\ [](/\ ~createWalletFromInput(WatchAddress).ok
        /\ \A pw \in Passwords, salt \in Salts :
             ~decryptWallet(encryptWallet(WatchAddress, pw, salt), pw).ok
        /\ \A i \in 1..Len(wallets) :
             wallets[i].encryptedPrivateKey # <<>> =>
               SecretOf(wallets[i]) # WatchAddress)
  /\ [][\A t \in {now, now + 1} :
          ImportWatchOnlyWallet(NoName, WatchAddress, t) =>
            /\ Len(wallets') = Len(wallets) + 1
            /\ SubSeq(wallets', 1, Len(wallets)) = wallets
            /\ wallets'[Len(wallets')].isWatchOnly
            /\ wallets'[Len(wallets')].address = WatchAddress
            /\ wallets'[Len(wallets')].encryptedPrivateKey = <<>>]_vars

\* The address was imported as watch-only into a store whose master password
\* is set and that holds a signing wallet
C25_Witness ==
  /\ masterPassword # NoValue
  /\ \E i, j \in 1..Len(wallets) :
       /\ wallets[i].isWatchOnly /\ wallets[i].address = WatchAddress
       /\ ~wallets[j].isWatchOnly

\* The terminal states of a batch run
Completed == showResults /\ results # <<>> /\ errorModal = NoValue
Aborted == errorModal = "Operation Failed" /\ results = <<>> /\ ~showResults
Terminal ==
  /\ ~operationInProgress
  /\ ~loading
  /\ Completed \/ Aborted
  /\ ~(Completed /\ Aborted)

\* C27: a run goes Idle -> Running -> {Completed, Aborted}.  When every
\* provider call settles, a running batch eventually ends; it ends in exactly
\* one of Completed (results set and shown) and Aborted (error reported, no
\* results, nothing shown) with loading and operationInProgress reset; a run
\* that fails before the bulk call goes from Idle to Aborted at once; and
\* while a run is in progress the bulk call is never replaced by another.
C27_RunReachesOneTerminalState ==
  /\ operationInProgress ~> ~operationInProgress
  /\ [][(operationInProgress /\ ~operationInProgress') => Terminal']_vars
  /\ [][(~operationInProgress /\ errorModal # "Operation Failed"
          /\ errorModal' = "Operation Failed") => (Terminal' /\ Aborted')]_vars
  /\ [][(operationInProgress /\ operationInProgress') =>
          /\ bulk'.fn = bulk.fn
          /\ bulk'.keys = bulk.keys
          /\ bulk'.params = bulk.params
          /\ decryptLog' = decryptLog]_vars

\* A run over two wallets has completed and shows its two results
C27_Witness ==
  /\ Terminal
  /\ Completed
  /\ Len(results) = 2

\* C28: no store update is lost under interleaving: a record leaves the store
\* only in a removeWallet call with its id, and a step of a bulk import adds
\* only the wallets that call imported (no removed record comes back), also
\* when an add or a remove completes while a bulkImportWallets call is awaiting.
C28_NoLostUpdate ==
  /\ [][\A i \in 1..Len(wallets) :
          (\A j \in 1..Len(wallets') : wallets'[j] # wallets[i]) =>
            RemoveWallet(wallets[i].id)]_vars
  /\ [][\A t \in {now, now + 1} :
          BulkImportFinish(t) =>
            \A j \in 1..Len(wallets') :
              \/ \E i \in 1..Len(wallets) : wallets[i] = wallets'[j]
              \/ /\ j > Len(importing[1].wallets)
                 /\ wallets'[j].name[1] = "Imported Wallet #"]_vars

\* The lines of a bulk import that are not blank, and those that are keys
NonBlank(inputs) == SelectSeq(inputs, LAMBDA line : line # "")
Importable(inputs) == SelectSeq(inputs, IsValidKey)

\* C29: bulkImportWallets accounts for every line: success + failed is the
\* number of non-blank lines, the wallets returned are those of the lines that
\* are keys, one each and in input order, whatever fails before them, and the
\* call appends exactly these wallets to the end of the store, the records the
\* store held when the call completed staying in front of them.
C29_EveryLineAccounted ==
  /\ []((importing # None /\ importing[1].pc = "returned") =>
          LET call == importing[1]
              res == call.results
              keys == Importable(call.inputs)
          IN /\ res.success + res.failed = Len(NonBlank(call.inputs))
             /\ res.success = Len(res.wallets)
             /\ Len(res.wallets) = Len(keys)
             /\ \A k \in 1..Len(keys) :
                  /\ res.wallets[k].address = AddressOf(keys[k])
                  /\ SecretOf(res.wallets[k]) = CanonicalKey(keys[k])
                  /\ ~res.wallets[k].isWatchOnly)
  /\ [][\A t \in {now, now + 1} :
          BulkImportFinish(t) =>
            wallets' = wallets \o importing'[1].results.wallets]_vars

====
